---- MODULE Spec2Model ----
(***************************************************************************)
(* Cluster coordination of the query node                                  *)
(* (server/src/handlers/http/cluster/mod.rs): the stream sync coordinator  *)
(* with its compensating rollback, the ingester registry listing, the      *)
(* stats aggregation, the cluster metrics, the cluster info and the        *)
(* removal of an ingester.                                                 *)
(***************************************************************************)
EXTENDS Integers, Sequences, FiniteSets, Bags, TLC

\* ------------------------------------------------------------------ bounds
MaxNodes == 3          \* number of ingester domains / longest registry listing

MaxStatBlobs == 3      \* longest listing of per-node stats blobs

MaxStat == 1           \* largest counter value stored in a stats blob

MaxRequests == 2       \* remove_ingester requests in one behaviour

MaxChanges == 1        \* registry blobs written or deleted while a sync runs

Nodes == 1..MaxNodes

\* --------------------------------------------------------------- variables
VARIABLES
    objects,         \* blobs under the "ingester" prefix, in storage-list order
    pc,              \* position of sync_streams_with_ingesters
    listed,          \* outcome of the registry listing: "none" | "ok" | "err"
    ingester_infos,  \* the IngesterMetadataArr this run works on
    idx,             \* position of the running for loop in ingester_infos
    errored,         \* the local flag of sync_streams_with_ingesters
    calls,           \* outbound network calls issued so far, in order
    result,          \* value returned by sync_streams_with_ingesters
    stat_store,      \* bag of the blobs named ".ingester*" under the stream root
    stats_pc,        \* position of fetch_stats_from_ingesters
    stats_listed,    \* outcome of its listing: "none" | "ok" | "err"
    stats_result,    \* value returned by fetch_stats_from_ingesters
    meta,            \* domains whose ingester metadata blob is in storage
    remove_pc,       \* position of remove_ingester
    remove_target,   \* domain_name of the running remove_ingester request
    remove_calls,    \* probes and storage deletes issued by remove_ingester
    remove_result,   \* value returned by remove_ingester
    requests,        \* number of remove_ingester requests received
    m_pc,            \* position of get_cluster_metrics
    m_infos,         \* its ingester_metadata
    m_idx,           \* position of its for loop
    m_fetches,       \* metrics fetches made so far, with their outcome
    dresses,         \* the sample sets collected so far
    m_result,        \* value returned by get_cluster_metrics
    ci_pc,           \* position of get_cluster_info
    ci_infos,        \* its ingester_infos
    ci_idx,          \* position of its for loop
    ci_fetches,      \* about requests made so far, with their outcome
    cluster_infos,   \* infos: the ClusterInfo entries collected so far
    ci_result,       \* value returned by get_cluster_info
    awaiting,        \* the outbound call a sync run is suspended on, if any
    silent,          \* list entries whose peer accepts a call and never answers
    changes          \* writes to the registry prefix made while a sync runs

syncVars == <<objects, pc, listed, ingester_infos, idx, errored, calls, result>>

statsVars == <<stat_store, stats_pc, stats_listed, stats_result>>

removeVars ==
    <<meta, remove_pc, remove_target, remove_calls, remove_result, requests>>

metricsVars == <<m_pc, m_infos, m_idx, m_fetches, dresses, m_result>>

infoVars == <<ci_pc, ci_infos, ci_idx, ci_fetches, cluster_infos, ci_result>>

envVars == <<awaiting, silent, changes>>

restVars == <<metricsVars, infoVars, envVars>>

vars == <<syncVars, statsVars, removeVars, restVars>>

\* ------------------------------------------------------------ result values
OkResult == [ok |-> TRUE, variant |-> "", msg |-> ""]

Err(variant, msg) == [ok |-> FALSE, variant |-> variant, msg |-> msg]

NoResult == [ok |-> FALSE, variant |-> "pending", msg |-> ""]

\* --------------------------------------------------------------- registry
\* A stored blob either holds the JSON of an IngesterMetadata or does not parse.
WellFormedBlob(d) == [json |-> TRUE, domain_name |-> d]

MalformedBlob == [json |-> FALSE, domain_name |-> 0]

\* IngesterMetadata::default(): every field empty (domain 0 is the empty string)
DefaultIngesterMetadata == [domain_name |-> 0]

\* serde_json::from_slice::<IngesterMetadata>(x)
from_slice(x) ==
    IF x.json THEN [ok |-> TRUE, val |-> [domain_name |-> x.domain_name]]
    ELSE [ok |-> FALSE, val |-> DefaultIngesterMetadata]

unwrap_or_default(r) == IF r.ok THEN r.val ELSE DefaultIngesterMetadata

\* get_ingester_info on a successful listing: one descriptor per blob
get_ingester_info(objs) ==
    [k \in 1..Len(objs) |-> unwrap_or_default(from_slice(objs[k]))]

\* ------------------------------------------------------------ network calls
\* check_liveness(domain_name): true iff the probe is answered
LivenessOutcomes == BOOLEAN

\* outcome of reqwest send(): a 2xx status, another status, or a transport error
HttpOutcomes == {"success", "status", "transport"}

Probe(by, i, ing, alive) ==
    [op |-> "liveness", by |-> by, i |-> i, domain |-> ing.domain_name,
     res |-> IF alive THEN "alive" ELSE "dead"]

Call(op, by, i, ing, resp) ==
    [op |-> op, by |-> by, i |-> i, domain |-> ing.domain_name, res |-> resp]

sync_on_dead_err(i, ing) ==
    [ret |-> Err("Network", "unreachable"),
     calls |-> <<Probe("sync", i, ing, FALSE)>>]

send_stream_sync_request_compensating(i, ing, alive, resp) ==
    IF ~alive
    THEN [ret |-> OkResult, calls |-> <<Probe("sync", i, ing, FALSE)>>]
    ELSE IF resp = "success"
    THEN [ret |-> OkResult,
          calls |-> <<Probe("sync", i, ing, TRUE),
                      Call("PUT", "sync", i, ing, resp)>>]
    ELSE [ret |-> Err("Network", "create"),
          calls |-> <<Probe("sync", i, ing, TRUE),
                      Call("PUT", "sync", i, ing, resp),
                      Call("DELETE", "sync", i, ing, "success")>>]

\* send_stream_sync_request: early Ok(()) when the probe fails
sync_on_dead(i, ing) ==
    [ret |-> OkResult, calls |-> <<Probe("sync", i, ing, FALSE)>>]

send_stream_sync_request(i, ing, alive, resp) ==
    IF ~alive THEN sync_on_dead(i, ing)
    ELSE [ret |-> IF resp = "success" THEN OkResult
                  ELSE Err("Network", "create"),
          calls |-> <<Probe("sync", i, ing, TRUE),
                      Call("PUT", "sync", i, ing, resp)>>]

rollback_error_as_generic(resp) ==
    Err("Custom", "Failed to sync stream with ingesters")

\* the two error returns of send_stream_rollback_request
rollback_error(resp) ==
    IF resp = "transport" THEN Err("Network", "rollback")
    ELSE Err("Custom", "failed to rollback stream creation")

send_stream_rollback_request(i, ing, alive, resp) ==
    IF ~alive THEN [ret |-> OkResult,
                    calls |-> <<Probe("rollback", i, ing, FALSE)>>]
    ELSE [ret |-> IF resp = "success" THEN OkResult ELSE rollback_error(resp),
          calls |-> <<Probe("rollback", i, ing, TRUE),
                      Call("DELETE", "rollback", i, ing, resp)>>]

\* -------------------------------------------- sync_streams_with_ingesters
forward_never_breaks(ret) == "continue"

\* the match on the result of send_stream_sync_request
forward_control(ret) == IF ret.ok THEN "continue" ELSE "break"

rollback_relists(infos, attempted) == get_ingester_info(objects)

rollback_attempted_only(infos, attempted) == SubSeq(infos, 1, attempted)

\* the list the rollback loop iterates: the whole of ingester_infos
rollback_targets(infos, attempted) == infos

needs_rollback_always(e) == TRUE

\* if errored
needs_rollback(e) == e

forward_failure_as_ok == OkResult

\* the error returned after a completed rollback
forward_failure_error == Err("Custom", "Failed to sync stream with ingesters")

list_error_ignored ==
    /\ pc = "start"
    /\ listed' = "err"
    /\ ingester_infos' = <<>>
    /\ idx' = 1
    /\ pc' = "forward"
    /\ UNCHANGED <<objects, errored, calls, result>>
    /\ UNCHANGED <<statsVars, removeVars, restVars>>

\* get_ingester_info() fails: map_err and ?
ListFails ==
    /\ pc = "start"
    /\ listed' = "err"
    /\ result' = Err("Anyhow", "failed to get ingester info")
    /\ pc' = "done"
    /\ UNCHANGED <<objects, ingester_infos, idx, errored, calls>>
    /\ UNCHANGED <<statsVars, removeVars, restVars>>

ListOk ==
    /\ pc = "start"
    /\ listed' = "ok"
    /\ ingester_infos' = get_ingester_info(objects)
    /\ errored' = FALSE
    /\ idx' = 1
    /\ pc' = "forward"
    /\ UNCHANGED <<objects, calls, result>>
    /\ UNCHANGED <<statsVars, removeVars, restVars>>

\* one iteration of the forward loop
ForwardStep ==
    /\ pc = "forward"
    /\ idx <= Len(ingester_infos)
    /\ \E alive \in LivenessOutcomes, resp \in HttpOutcomes :
         LET r == send_stream_sync_request(idx, ingester_infos[idx], alive, resp)
         IN /\ calls' = calls \o r.calls
            /\ IF forward_control(r.ret) = "continue"
               THEN /\ idx' = idx + 1
                    /\ UNCHANGED <<errored, pc>>
               ELSE /\ errored' = TRUE
                    /\ pc' = "check"
                    /\ UNCHANGED idx
    /\ UNCHANGED <<objects, listed, ingester_infos, result>>
    /\ UNCHANGED <<statsVars, removeVars, restVars>>

\* the forward loop runs out of entries
ForwardExhausted ==
    /\ pc = "forward"
    /\ idx > Len(ingester_infos)
    /\ pc' = "check"
    /\ UNCHANGED <<objects, listed, ingester_infos, idx, errored, calls, result>>
    /\ UNCHANGED <<statsVars, removeVars, restVars>>

\* if errored { rollback } else Ok(())
CheckErrored ==
    /\ pc = "check"
    /\ IF needs_rollback(errored)
       THEN /\ ingester_infos' = rollback_targets(ingester_infos, idx)
            /\ idx' = 1
            /\ pc' = "rollback"
            /\ UNCHANGED result
       ELSE /\ result' = OkResult
            /\ pc' = "done"
            /\ UNCHANGED <<ingester_infos, idx>>
    /\ UNCHANGED <<objects, listed, errored, calls>>
    /\ UNCHANGED <<statsVars, removeVars, restVars>>

\* one iteration of the rollback loop; ? returns the first error
RollbackStep ==
    /\ pc = "rollback"
    /\ idx <= Len(ingester_infos)
    /\ \E alive \in LivenessOutcomes, resp \in HttpOutcomes :
         LET r == send_stream_rollback_request(idx, ingester_infos[idx], alive, resp)
         IN /\ calls' = calls \o r.calls
            /\ IF r.ret.ok
               THEN /\ idx' = idx + 1
                    /\ UNCHANGED <<pc, result>>
               ELSE /\ result' = r.ret
                    /\ pc' = "done"
                    /\ UNCHANGED idx
    /\ UNCHANGED <<objects, listed, ingester_infos, errored>>
    /\ UNCHANGED <<statsVars, removeVars, restVars>>

\* the rollback loop runs out of entries
RollbackExhausted ==
    /\ pc = "rollback"
    /\ idx > Len(ingester_infos)
    /\ result' = forward_failure_error
    /\ pc' = "done"
    /\ UNCHANGED <<objects, listed, ingester_infos, idx, errored, calls>>
    /\ UNCHANGED <<statsVars, removeVars, restVars>>

\* registry listings of at most n blobs: the k-th listed blob is the one
\* written by node k, well-formed or not
RECURSIVE ObjectLists(_)
ObjectLists(n) ==
    IF n = 0 THEN {<<>>}
    ELSE ObjectLists(n - 1) \cup
         {Append(s, b) : s \in {t \in ObjectLists(n - 1) : Len(t) = n - 1},
                         b \in {WellFormedBlob(n), MalformedBlob}}

SyncIdle ==
    /\ pc = "start"
    /\ listed = "none"
    /\ ingester_infos = <<>>
    /\ idx = 1
    /\ errored = FALSE
    /\ calls = <<>>
    /\ result = NoResult

StatsIdle ==
    /\ stats_pc = "start"
    /\ stats_listed = "none"
    /\ stats_result = [ok |-> FALSE, variant |-> "pending", records |-> <<>>]

RemoveIdle ==
    /\ remove_pc = "idle"
    /\ remove_target = 0
    /\ remove_calls = <<>>
    /\ remove_result = NoResult
    /\ requests = 0

MetricsIdle ==
    /\ m_pc = "start"
    /\ m_infos = <<>>
    /\ m_idx = 1
    /\ m_fetches = <<>>
    /\ dresses = <<>>
    /\ m_result = [ok |-> FALSE, variant |-> "pending", body |-> <<>>]

InfoIdle ==
    /\ ci_pc = "start"
    /\ ci_infos = <<>>
    /\ ci_idx = 1
    /\ ci_fetches = <<>>
    /\ cluster_infos = <<>>
    /\ ci_result = [ok |-> FALSE, variant |-> "pending", body |-> <<>>]

EnvIdle ==
    /\ awaiting = 0
    /\ silent = {}
    /\ changes = 0

RestIdle == MetricsIdle /\ InfoIdle /\ EnvIdle

Init ==
    /\ objects \in ObjectLists(MaxNodes)
    /\ SyncIdle
    /\ stat_store = EmptyBag
    /\ StatsIdle
    /\ meta = {}
    /\ RemoveIdle
    /\ RestIdle

Next ==
    \/ ListFails
    \/ ListOk
    \/ ForwardStep
    \/ ForwardExhausted
    \/ CheckErrored
    \/ RollbackStep
    \/ RollbackExhausted

Spec == Init /\ [][Next]_vars

\* ------------------------------------------ fetch_stats_from_ingesters
StatValues == 0..MaxStat

\* A stats blob either holds the JSON of an ObjectStoreFormat or does not parse.
StatBlobs ==
    [json : {TRUE}, events : StatValues, ingestion : StatValues,
     storage : StatValues]
    \cup {[json |-> FALSE, events |-> 0, ingestion |-> 0, storage |-> 0]}

\* serde_json::from_slice::<ObjectStoreFormat>(&ob)
from_slice_stats(ob) ==
    IF ob.json
    THEN [ok |-> TRUE,
          stats |-> [events |-> ob.events, ingestion |-> ob.ingestion,
                     storage |-> ob.storage]]
    ELSE [ok |-> FALSE, stats |-> [events |-> 0, ingestion |-> 0, storage |-> 0]]

\* the three counters before the loop
ZeroTotals == [count |-> 0, ingestion_size |-> 0, storage_size |-> 0]

add_stat_overwrite(acc, stat) ==
    [count |-> stat.events, ingestion_size |-> stat.ingestion,
     storage_size |-> stat.storage]

\* the three += of the loop body
add_stat(acc, stat) ==
    [count |-> acc.count + stat.events,
     ingestion_size |-> acc.ingestion_size + stat.ingestion,
     storage_size |-> acc.storage_size + stat.storage]

\* for ob in obs { if let Ok(stat) = ... }, from entry k on
RECURSIVE stats_loop(_, _, _)
stats_loop(obs, k, acc) ==
    IF k > Len(obs) THEN acc
    ELSE LET r == from_slice_stats(obs[k])
         IN stats_loop(obs, k + 1, IF r.ok THEN add_stat(acc, r.stats) ELSE acc)

\* format!("{} Bytes", n)
format_bytes(n) == <<n, " Bytes">>

\* QueriedStats::new("", now, IngestionStats::new(..), StorageStats::new(..))
QueriedStats(t) ==
    [stream |-> "",
     ingestion |-> [count |-> t.count, size |-> format_bytes(t.ingestion_size),
                    format |-> "json"],
     storage |-> [size |-> format_bytes(t.storage_size), format |-> "parquet"]]

fetch_stats_from_ingesters(obs) ==
    [ok |-> TRUE, variant |-> "",
     records |-> <<QueriedStats(stats_loop(obs, 1, ZeroTotals))>>]

\* the sequences get_objects can return for the stored bag B of blobs
Listings(B) ==
    LET n == BagCardinality(B)
        D == BagToSet(B)
    IN {s \in [1..n -> D] :
          \A x \in D : Cardinality({k \in 1..n : s[k] = x}) = CopiesIn(x, B)}

\* get_objects fails: ? returns the storage error
FetchStatsListFails ==
    /\ stats_pc = "start"
    /\ stats_listed' = "err"
    /\ stats_result' = [ok |-> FALSE, variant |-> "Storage", records |-> <<>>]
    /\ stats_pc' = "done"
    /\ UNCHANGED <<stat_store, syncVars, removeVars, restVars>>

\* get_objects returns the blobs in an order of the store's choosing
FetchStats ==
    /\ stats_pc = "start"
    /\ stats_listed' = "ok"
    /\ \E obs \in Listings(stat_store) :
         stats_result' = fetch_stats_from_ingesters(obs)
    /\ stats_pc' = "done"
    /\ UNCHANGED <<stat_store, syncVars, removeVars, restVars>>

\* stream roots holding at most n stats blobs
RECURSIVE StatStores(_)
StatStores(n) ==
    IF n = 0 THEN {EmptyBag}
    ELSE LET S == StatStores(n - 1)
         IN S \cup {B (+) SetToBag({b}) : B \in S, b \in StatBlobs}

InitStats ==
    /\ stat_store \in StatStores(MaxStatBlobs)
    /\ StatsIdle
    /\ RestIdle
    /\ objects = <<>>
    /\ SyncIdle
    /\ meta = {}
    /\ RemoveIdle

NextStats ==
    \/ FetchStatsListFails
    \/ FetchStats

SpecStats == InitStats /\ [][NextStats]_vars

\* ------------------------------------------------------- remove_ingester
liveness_gate_open(alive) == "proceed"

\* if check_liveness(&domain_name).await { return Err(..) }
liveness_gate(alive) == IF alive THEN "refuse" ELSE "proceed"

\* try_delete_ingester_meta: outcomes the object store can give for a key
DeleteOutcomes(present) ==
    IF present THEN {"Ok", "Other"} ELSE {"Ok", "IoError", "Other"}

\* the match on the result of try_delete_ingester_meta
remove_message(outcome) ==
    IF outcome = "Ok" THEN "Removed Successfully"
    ELSE IF outcome = "IoError" THEN "Not Found"
    ELSE "Error Removing Node"

remove_response_not_found_err(outcome) ==
    IF outcome = "IoError" THEN Err("Invalid", "Not Found")
    ELSE [ok |-> TRUE, variant |-> "200 OK", msg |-> remove_message(outcome)]

\* Ok((msg, StatusCode::OK)) for every result of the delete
remove_response(outcome) ==
    [ok |-> TRUE, variant |-> "200 OK", msg |-> remove_message(outcome)]

\* a request for the removal of domain d arrives
RemoveRequest ==
    /\ remove_pc = "idle"
    /\ requests < MaxRequests
    /\ \E d \in Nodes : remove_target' = d
    /\ requests' = requests + 1
    /\ remove_result' = NoResult
    /\ remove_pc' = "liveness"
    /\ UNCHANGED <<meta, remove_calls, syncVars, statsVars, restVars>>

\* the liveness check and the early return
RemoveProbe ==
    /\ remove_pc = "liveness"
    /\ \E alive \in LivenessOutcomes :
         /\ remove_calls' = Append(remove_calls,
                [op |-> "liveness", req |-> requests, domain |-> remove_target,
                 res |-> IF alive THEN "alive" ELSE "dead"])
         /\ IF liveness_gate(alive) = "refuse"
            THEN /\ remove_result' = Err("Invalid", "Node Online")
                 /\ remove_pc' = "done"
            ELSE /\ remove_pc' = "delete"
                 /\ UNCHANGED remove_result
    /\ UNCHANGED <<meta, remove_target, requests, syncVars, statsVars, restVars>>

\* the storage delete and the message built from its result
RemoveDelete ==
    /\ remove_pc = "delete"
    /\ \E outcome \in DeleteOutcomes(remove_target \in meta) :
         /\ remove_calls' = Append(remove_calls,
                [op |-> "delete", req |-> requests, domain |-> remove_target,
                 res |-> outcome])
         /\ meta' = IF outcome = "Ok" THEN meta \ {remove_target} ELSE meta
         /\ remove_result' = remove_response(outcome)
    /\ remove_pc' = "done"
    /\ UNCHANGED <<remove_target, requests, syncVars, statsVars, restVars>>

\* the response is sent; the handler can serve the next request
RemoveReturn ==
    /\ remove_pc = "done"
    /\ remove_pc' = "idle"
    /\ UNCHANGED <<meta, remove_target, remove_calls, remove_result, requests,
                   syncVars, statsVars, restVars>>

InitRemove ==
    /\ meta \in SUBSET Nodes
    /\ RemoveIdle
    /\ RestIdle
    /\ objects = <<>>
    /\ SyncIdle
    /\ stat_store = EmptyBag
    /\ StatsIdle

NextRemove ==
    \/ RemoveRequest
    \/ RemoveProbe
    \/ RemoveDelete
    \/ RemoveReturn

SpecRemove == InitRemove /\ [][NextRemove]_vars

\* -------------------------------------------------- get_cluster_metrics
\* Url::parse(&format!("{}{}/...", domain_name, base_path)): the empty domain
\* of a default descriptor leaves a relative path, which is no URL
url_parse_ok(domain) == domain # 0

\* what a metrics fetch can come to: send() fails, the body cannot be read,
\* the exposition text is refused by the parser, or a response of whatever
\* status is read and parsed
MetricsOutcomes == {"transport", "body", "parse", "success"}

\* Metrics::from_prometheus_samples(sample, ingester.domain_name)
from_prometheus_samples(i, ing) == [domain_name |-> ing.domain_name, of |-> i]

MResult(ok, variant, body) == [ok |-> ok, variant |-> variant, body |-> body]

\* get_ingester_info() fails: PostError::Invalid
MetricsListFails ==
    /\ m_pc = "start"
    /\ m_result' = MResult(FALSE, "Invalid", <<>>)
    /\ m_pc' = "done"
    /\ UNCHANGED <<m_infos, m_idx, m_fetches, dresses>>
    /\ UNCHANGED <<syncVars, statsVars, removeVars, infoVars, envVars>>

MetricsListOk ==
    /\ m_pc = "start"
    /\ m_infos' = get_ingester_info(objects)
    /\ m_idx' = 1
    /\ m_pc' = "loop"
    /\ UNCHANGED <<m_fetches, dresses, m_result>>
    /\ UNCHANGED <<syncVars, statsVars, removeVars, infoVars, envVars>>

\* what the loop body does with the outcome of one fetch
metrics_on_outcome(outcome) ==
    IF outcome = "transport" THEN "warn"
    ELSE IF outcome = "body" THEN "NetworkError"
    ELSE IF outcome = "parse" THEN "CustomError"
    ELSE "push"

\* one iteration of the loop over ingester_metadata
MetricsStep ==
    /\ m_pc = "loop"
    /\ m_idx <= Len(m_infos)
    /\ IF ~url_parse_ok(m_infos[m_idx].domain_name)
       THEN /\ m_result' = MResult(FALSE, "panic", <<>>)
            /\ m_pc' = "done"
            /\ UNCHANGED <<m_idx, m_fetches, dresses>>
       ELSE \E outcome \in MetricsOutcomes :
              LET act == metrics_on_outcome(outcome)
              IN /\ m_fetches' = Append(m_fetches,
                        [i |-> m_idx, domain |-> m_infos[m_idx].domain_name,
                         res |-> outcome])
                 /\ IF act \in {"NetworkError", "CustomError"}
                    THEN /\ m_result' = MResult(FALSE, act, <<>>)
                         /\ m_pc' = "done"
                         /\ UNCHANGED <<m_idx, dresses>>
                    ELSE /\ m_idx' = m_idx + 1
                         /\ dresses' =
                              IF act = "push"
                              THEN Append(dresses,
                                     from_prometheus_samples(m_idx, m_infos[m_idx]))
                              ELSE dresses
                         /\ UNCHANGED <<m_pc, m_result>>
    /\ UNCHANGED m_infos
    /\ UNCHANGED <<syncVars, statsVars, removeVars, infoVars, envVars>>

\* Ok(HttpResponse::Ok().json(dresses))
MetricsReturn ==
    /\ m_pc = "loop"
    /\ m_idx > Len(m_infos)
    /\ m_result' = MResult(TRUE, "200 OK", dresses)
    /\ m_pc' = "done"
    /\ UNCHANGED <<m_infos, m_idx, m_fetches, dresses>>
    /\ UNCHANGED <<syncVars, statsVars, removeVars, infoVars, envVars>>

InitMetrics ==
    /\ objects \in ObjectLists(MaxNodes)
    /\ SyncIdle
    /\ stat_store = EmptyBag
    /\ StatsIdle
    /\ meta = {}
    /\ RemoveIdle
    /\ RestIdle

NextMetrics ==
    \/ MetricsListFails
    \/ MetricsListOk
    \/ MetricsStep
    \/ MetricsReturn

SpecMetrics == InitMetrics /\ [][NextMetrics]_vars

\* ----------------------------------------------------- get_cluster_info
\* what an about request can come to: send() fails, the body cannot be read,
\* the body is no JSON, the JSON has no "staging" member, "staging" is no
\* string, or a body with a "staging" string is read
AboutOutcomes ==
    {"transport", "body", "json", "no_staging", "non_string", "success"}

info_on_outcome_skip(outcome) ==
    IF outcome = "transport" THEN "skip"
    ELSE IF outcome = "body" THEN "Network"
    ELSE IF outcome = "json" THEN "SerdeError"
    ELSE IF outcome \in {"no_staging", "non_string"} THEN "panic"
    ELSE "push"

\* what the loop body does with the outcome of one about request: map_err
\* and ? on the body and on the JSON, unwrap() on the member and on as_str()
info_on_outcome(outcome) ==
    IF outcome = "transport" THEN "push"
    ELSE IF outcome = "body" THEN "Network"
    ELSE IF outcome = "json" THEN "SerdeError"
    ELSE IF outcome \in {"no_staging", "non_string"} THEN "panic"
    ELSE "push"

\* utils::ClusterInfo::new(&domain_name, reachable, staging_path, .., error, status)
ClusterInfo(ing, outcome) ==
    IF outcome = "success"
    THEN [domain_name |-> ing.domain_name, reachable |-> TRUE,
          staging_path |-> "staging", error |-> "None"]
    ELSE [domain_name |-> ing.domain_name, reachable |-> FALSE,
          staging_path |-> "", error |-> "Some"]

\* get_ingester_info() fails: StreamError::Anyhow
InfoListFails ==
    /\ ci_pc = "start"
    /\ ci_result' = MResult(FALSE, "Anyhow", <<>>)
    /\ ci_pc' = "done"
    /\ UNCHANGED <<ci_infos, ci_idx, ci_fetches, cluster_infos>>
    /\ UNCHANGED <<syncVars, statsVars, removeVars, metricsVars, envVars>>

InfoListOk ==
    /\ ci_pc = "start"
    /\ ci_infos' = get_ingester_info(objects)
    /\ ci_idx' = 1
    /\ ci_pc' = "loop"
    /\ UNCHANGED <<ci_fetches, cluster_infos, ci_result>>
    /\ UNCHANGED <<syncVars, statsVars, removeVars, metricsVars, envVars>>

\* one iteration of the loop over ingester_infos
InfoStep ==
    /\ ci_pc = "loop"
    /\ ci_idx <= Len(ci_infos)
    /\ IF ~url_parse_ok(ci_infos[ci_idx].domain_name)
       THEN /\ ci_result' = MResult(FALSE, "panic", <<>>)
            /\ ci_pc' = "done"
            /\ UNCHANGED <<ci_idx, ci_fetches, cluster_infos>>
       ELSE \E outcome \in AboutOutcomes :
              LET act == info_on_outcome(outcome)
              IN /\ ci_fetches' = Append(ci_fetches,
                        [i |-> ci_idx, domain |-> ci_infos[ci_idx].domain_name,
                         res |-> outcome])
                 /\ IF act \in {"Network", "SerdeError", "panic"}
                    THEN /\ ci_result' = MResult(FALSE, act, <<>>)
                         /\ ci_pc' = "done"
                         /\ UNCHANGED <<ci_idx, cluster_infos>>
                    ELSE /\ ci_idx' = ci_idx + 1
                         /\ cluster_infos' =
                              IF act = "push"
                              THEN Append(cluster_infos,
                                          ClusterInfo(ci_infos[ci_idx], outcome))
                              ELSE cluster_infos
                         /\ UNCHANGED <<ci_pc, ci_result>>
    /\ UNCHANGED ci_infos
    /\ UNCHANGED <<syncVars, statsVars, removeVars, metricsVars, envVars>>

\* Ok(HttpResponse::Ok().json(infos))
InfoReturn ==
    /\ ci_pc = "loop"
    /\ ci_idx > Len(ci_infos)
    /\ ci_result' = MResult(TRUE, "200 OK", cluster_infos)
    /\ ci_pc' = "done"
    /\ UNCHANGED <<ci_infos, ci_idx, ci_fetches, cluster_infos>>
    /\ UNCHANGED <<syncVars, statsVars, removeVars, metricsVars, envVars>>

InitInfo ==
    /\ objects \in ObjectLists(MaxNodes)
    /\ SyncIdle
    /\ stat_store = EmptyBag
    /\ StatsIdle
    /\ meta = {}
    /\ RemoveIdle
    /\ RestIdle

NextInfo ==
    \/ InfoListFails
    \/ InfoListOk
    \/ InfoStep
    \/ InfoReturn

SpecInfo == InitInfo /\ [][NextInfo]_vars

\* --------------------------- sync_streams_with_ingesters, call by call
\* The run is suspended at .send().await until the peer answers: the client
\* is built by reqwest::Client::new() and no call sets a timeout, so nothing
\* but an answer resumes it.

\* the liveness probe of the next entry, and the request sent when it is alive
LiveIssue ==
    /\ pc \in {"forward", "rollback"}
    /\ idx <= Len(ingester_infos)
    /\ awaiting = 0
    /\ \E alive \in LivenessOutcomes :
         /\ calls' = Append(calls,
                Probe(IF pc = "forward" THEN "sync" ELSE "rollback",
                      idx, ingester_infos[idx], alive))
         /\ IF alive
            THEN awaiting' = idx /\ UNCHANGED idx
            ELSE idx' = idx + 1 /\ UNCHANGED awaiting
    /\ UNCHANGED <<objects, pc, listed, ingester_infos, errored, result>>
    /\ UNCHANGED <<silent, changes>>
    /\ UNCHANGED <<statsVars, removeVars, metricsVars, infoVars>>

\* the peer answers the request in flight and the run goes on
LiveAnswer ==
    /\ awaiting # 0
    /\ awaiting \notin silent
    /\ awaiting' = 0
    /\ \E resp \in HttpOutcomes :
         IF pc = "forward"
         THEN LET r == send_stream_sync_request(idx, ingester_infos[idx], TRUE, resp)
              IN /\ calls' = Append(calls, r.calls[2])
                 /\ IF forward_control(r.ret) = "continue"
                    THEN /\ idx' = idx + 1
                         /\ UNCHANGED <<errored, pc>>
                    ELSE /\ errored' = TRUE
                         /\ pc' = "check"
                         /\ UNCHANGED idx
                 /\ UNCHANGED result
         ELSE LET r == send_stream_rollback_request(idx, ingester_infos[idx],
                                                    TRUE, resp)
              IN /\ calls' = Append(calls, r.calls[2])
                 /\ IF r.ret.ok
                    THEN /\ idx' = idx + 1
                         /\ UNCHANGED <<pc, result>>
                    ELSE /\ result' = r.ret
                         /\ pc' = "done"
                         /\ UNCHANGED idx
                 /\ UNCHANGED errored
    /\ UNCHANGED <<objects, listed, ingester_infos>>
    /\ UNCHANGED <<silent, changes>>
    /\ UNCHANGED <<statsVars, removeVars, metricsVars, infoVars>>

\* the registry lists n well-formed descriptors
FullList(n) == [k \in 1..n |-> WellFormedBlob(k)]

InitLive ==
    /\ objects \in {FullList(n) : n \in 0..MaxNodes}
    /\ SyncIdle
    /\ stat_store = EmptyBag
    /\ StatsIdle
    /\ meta = {}
    /\ RemoveIdle
    /\ MetricsIdle
    /\ InfoIdle
    /\ awaiting = 0
    /\ silent \in {{}} \cup {{i} : i \in 1..Len(objects)}
    /\ changes = 0

NextLive ==
    \/ ListFails
    \/ ListOk
    \/ LiveIssue
    \/ LiveAnswer
    \/ ForwardExhausted
    \/ CheckErrored
    \/ RollbackExhausted

\* the runtime keeps polling a task that can make progress
SpecLive == InitLive /\ [][NextLive]_vars /\ WF_vars(NextLive)

\* ------------------- sync_streams_with_ingesters while the registry changes
\* domains that have a well-formed descriptor in storage
Registered == {objects[k].domain_name : k \in {j \in 1..Len(objects) : objects[j].json}}

\* objs without its k-th blob
RemoveAt(objs, k) == SubSeq(objs, 1, k - 1) \o SubSeq(objs, k + 1, Len(objs))

\* a starting node writes its descriptor under the ingester prefix
StorageAdd ==
    /\ changes < MaxChanges
    /\ \E d \in Nodes \ Registered : objects' = Append(objects, WellFormedBlob(d))
    /\ changes' = changes + 1
    /\ UNCHANGED <<pc, listed, ingester_infos, idx, errored, calls, result>>
    /\ UNCHANGED <<awaiting, silent>>
    /\ UNCHANGED <<statsVars, removeVars, metricsVars, infoVars>>

\* a concurrent remove_ingester deletes the descriptor of a node
StorageRemove ==
    /\ changes < MaxChanges
    /\ \E k \in 1..Len(objects) : objects' = RemoveAt(objects, k)
    /\ changes' = changes + 1
    /\ UNCHANGED <<pc, listed, ingester_infos, idx, errored, calls, result>>
    /\ UNCHANGED <<awaiting, silent>>
    /\ UNCHANGED <<statsVars, removeVars, metricsVars, infoVars>>

InitConc ==
    /\ objects \in {FullList(n) : n \in 0..MaxNodes}
    /\ SyncIdle
    /\ stat_store = EmptyBag
    /\ StatsIdle
    /\ meta = {}
    /\ RemoveIdle
    /\ RestIdle

NextConc ==
    \/ ListFails
    \/ ListOk
    \/ ForwardStep
    \/ ForwardExhausted
    \/ CheckErrored
    \/ RollbackStep
    \/ RollbackExhausted
    \/ StorageAdd
    \/ StorageRemove

SpecConc == InitConc /\ [][NextConc]_vars

\* ------------------------------------------------- reading the call log
OriginalList == get_ingester_info(objects)

CallIdx == 1..Len(calls)

Puts == {p \in CallIdx : calls[p].op = "PUT"}

Deletes == {p \in CallIdx : calls[p].op = "DELETE"}

SyncProbes == {p \in CallIdx : calls[p].op = "liveness" /\ calls[p].by = "sync"}

RollbackProbes ==
    {p \in CallIdx : calls[p].op = "liveness" /\ calls[p].by = "rollback"}

CreateFailed == \E p \in Puts : calls[p].res # "success"

RollbackFailed == \E p \in Deletes : calls[p].res # "success"

\* list entries the forward phase went through with an accepted create or a skip
Accepted(i) == \E p \in Puts : calls[p].i = i /\ calls[p].res = "success"

Skipped(i) == \E p \in SyncProbes : calls[p].i = i /\ calls[p].res = "dead"

\* --------------------------------------------------------------- claims

C2_ForwardInOrderHaltsAtFirstFailure ==
    /\ \A p, q \in Puts :
          p < q => calls[p].i < calls[q].i /\ calls[p].res = "success"
    /\ \A p \in SyncProbes :
          calls[p].i = Cardinality({q \in SyncProbes : q <= p})
    /\ \A p \in Puts : p - 1 \in SyncProbes /\ calls[p - 1].i = calls[p].i

C2_Witness ==
    /\ pc = "done"
    /\ Len(OriginalList) = 3
    /\ \E p \in Puts : calls[p].i = 1 /\ calls[p].res = "success"
    /\ \E p \in Puts : calls[p].i = 2 /\ calls[p].res = "transport"
    /\ ~ \E p \in CallIdx : calls[p].by = "sync" /\ calls[p].i = 3

\* C3: a finished run in which a create failed never returns success,
\* whatever the rollback calls returned.
C3_FailedCreateNeverSucceeds ==
    (pc = "done" /\ CreateFailed) => ~result.ok

C3_Witness ==
    /\ pc = "done"
    /\ CreateFailed
    /\ Deletes # {}
    /\ ~RollbackFailed
    /\ ~result.ok

\* C4: when every entry accepted the create or was skipped as unreachable,
\* the run returns success and no DELETE was issued.
C4_AllAcceptedOrSkippedSucceeds ==
    (pc = "done" /\ listed = "ok"
       /\ \A i \in 1..Len(OriginalList) : Accepted(i) \/ Skipped(i)) =>
        result.ok /\ Deletes = {}

C4_Witness ==
    /\ pc = "done"
    /\ Len(OriginalList) = 3
    /\ \E i \in 1..3 : Skipped(i)
    /\ \E i \in 1..3 : Accepted(i)
    /\ \A i \in 1..3 : Accepted(i) \/ Skipped(i)
    /\ result.ok

\* C5: an entry whose probe fails in the forward phase gets no create and is
\* no failure: the loop moves on to the next entry, and the run succeeds when
\* no issued create failed.
C5_UnreachableSkippedWithoutFailure ==
    /\ \A p \in SyncProbes : calls[p].res = "dead" =>
          /\ ~ \E q \in Puts : calls[q].i = calls[p].i
          /\ p = Len(calls) => idx = calls[p].i + 1 /\ ~errored
          /\ p < Len(calls) /\ calls[p + 1].by = "sync" =>
                calls[p + 1].i = calls[p].i + 1
    /\ (pc = "done" /\ listed = "ok" /\ ~CreateFailed) => result.ok

C5_Witness ==
    /\ pc = "done"
    /\ result.ok
    /\ Skipped(1)
    /\ Accepted(2)

\* C6: a failed rollback call (status or transport) ends the run with an
\* error other than the forward-failure error, never with success.
C6_RollbackFailureDistinctError ==
    (pc = "done" /\ RollbackFailed) =>
        ~result.ok /\ result # forward_failure_error

C6_Witness ==
    /\ pc = "done"
    /\ \E p \in Deletes : calls[p].res = "status"
    /\ result = Err("Custom", "failed to rollback stream creation")

\* C7: when the registry listing fails the run returns an error and has
\* issued no probe, no create and no rollback call.
C7_ListFailureNoCalls ==
    listed = "err" => (pc = "done" /\ ~result.ok /\ calls = <<>>)

C7_Witness ==
    /\ pc = "done"
    /\ listed = "err"
    /\ Len(objects) = 3
    /\ result.variant = "Anyhow"

\* C8 (as stated): a successful listing returns exactly as many descriptors
\* as there are well-formed blobs.
C8_ExactlyWellFormed ==
    listed = "ok" =>
        Len(ingester_infos) = Cardinality({k \in 1..Len(objects) : objects[k].json})

\* ----------------------------------------------------- claims on the stats
\* the stored blobs that parse
ParseableBlobs(B) == {x \in BagToSet(B) : from_slice_stats(x).ok}

\* sum of field f over the copies of the blobs S in the bag B
RECURSIVE SumField(_, _, _)
SumField(B, S, f) ==
    IF S = {} THEN 0
    ELSE LET x == CHOOSE y \in S : TRUE
         IN x[f] * CopiesIn(x, B) + SumField(B, S \ {x}, f)

\* C9: once the listing succeeded, fetch_stats_from_ingesters returns one
\* record whose event count, ingestion bytes and storage bytes are the sums
\* over the parseable blobs only, unparseable blobs never fail the call, and
\* every order in which the blobs can be listed gives the same record.
C9_StatsAreSumsOfParseable ==
    (stats_pc = "done" /\ stats_listed = "ok") =>
        /\ stats_result.ok
        /\ Len(stats_result.records) = 1
        /\ LET rec == stats_result.records[1]
               P == ParseableBlobs(stat_store)
           IN /\ rec.ingestion.count = SumField(stat_store, P, "events")
              /\ rec.ingestion.size =
                    <<SumField(stat_store, P, "ingestion"), " Bytes">>
              /\ rec.storage.size =
                    <<SumField(stat_store, P, "storage"), " Bytes">>
        /\ \A o \in Listings(stat_store) :
              fetch_stats_from_ingesters(o) = stats_result

\* C9 witness: one corrupted blob among two different valid ones
C9_Witness ==
    /\ stats_pc = "done"
    /\ stats_result.ok
    /\ BagCardinality(stat_store) = 3
    /\ Cardinality(ParseableBlobs(stat_store)) = 2
    /\ \E x \in BagToSet(stat_store) : ~x.json
    /\ stats_result.records[1].ingestion.count = 2
    /\ stats_result.records[1].storage.size = <<1, " Bytes">>

\* --------------------------------------------------- claims on the removal
\* C10: when the target answers the liveness probe, remove_ingester returns
\* an error, issues no delete against storage in that request and leaves the
\* stored metadata blobs as they were.
C10_LiveNodeNotRemoved ==
    /\ [](\A p \in 1..Len(remove_calls) :
            (remove_calls[p].op = "liveness" /\ remove_calls[p].res = "alive") =>
               /\ ~ \E q \in 1..Len(remove_calls) :
                      /\ remove_calls[q].op = "delete"
                      /\ remove_calls[q].req = remove_calls[p].req
               /\ (remove_calls[p].req = requests /\ remove_pc # "idle") =>
                      /\ remove_pc = "done"
                      /\ remove_result = Err("Invalid", "Node Online"))
    /\ [][(/\ remove_calls # <<>>
            /\ remove_calls[Len(remove_calls)].res = "alive"
            /\ remove_calls[Len(remove_calls)].req = requests) =>
            meta' = meta]_vars

C10_Witness ==
    /\ remove_pc = "done"
    /\ remove_target \in meta
    /\ remove_calls # <<>>
    /\ remove_calls[Len(remove_calls)].res = "alive"
    /\ remove_calls[Len(remove_calls)].domain = remove_target
    /\ ~remove_result.ok

\* the delete calls of remove_ingester in the log
RemoveDeletes == {p \in 1..Len(remove_calls) : remove_calls[p].op = "delete"}

\* C11: a removal of an unreachable node whose metadata blob is absent returns
\* a success result and leaves storage as it is, however often it is repeated.
C11_RemoveAbsentSucceeds ==
    [][(remove_pc = "delete" /\ remove_target \notin meta) =>
          /\ remove_pc' = "done"
          /\ remove_result'.ok
          /\ meta' = meta]_vars

\* C11 witness: the second removal of the same node, after the first one
\* deleted the blob, answers "Not Found" with a success result.
C11_Witness ==
    /\ remove_pc = "done"
    /\ requests = 2
    /\ Len(remove_calls) = 4
    /\ remove_calls[2].op = "delete" /\ remove_calls[2].res = "Ok"
    /\ remove_calls[4].op = "delete" /\ remove_calls[4].res = "IoError"
    /\ remove_calls[2].domain = remove_calls[4].domain
    /\ remove_target \notin meta
    /\ remove_result.ok
    /\ remove_result.msg = "Not Found"

\* C12 (as stated): when the storage delete of the running request failed
\* with an error other than not-found, the request ends with an error.
C12_OtherDeleteErrorSurfaced ==
    (/\ remove_pc = "done"
     /\ remove_calls # <<>>
     /\ remove_calls[Len(remove_calls)].op = "delete"
     /\ remove_calls[Len(remove_calls)].res = "Other") =>
        ~remove_result.ok

\* -------------------------------------------------- claims on the metrics
MFetches == 1..Len(m_fetches)

\* sample sets of the returned body tagged with domain d
SetsOf(d) == {k \in 1..Len(m_result.body) : m_result.body[k].domain_name = d}

\* the registry holds well-formed descriptors only
AllWellFormed == \A k \in 1..Len(objects) : objects[k].json

\* C13 (as stated): over a registry of well-formed descriptors, the finished
\* call has returned exactly one sample set, tagged with the node's domain
\* name, for every node whose fetch succeeded and none for a node whose fetch
\* failed, so at most one set per node.
C13_OneSetPerFetchedNode ==
    (m_pc = "done" /\ AllWellFormed) =>
        /\ \A p \in MFetches :
              IF m_fetches[p].res = "success"
              THEN Cardinality(SetsOf(m_fetches[p].domain)) = 1
              ELSE SetsOf(m_fetches[p].domain) = {}
        /\ Len(m_result.body) <= Len(m_infos)

\* C14 (as stated): over a registry of well-formed descriptors, a fetch that
\* failed (transport, body or parse) never makes the finished call an error,
\* and the sets of the other nodes are returned.
C14_NodeFailureOnlyOmitsNode ==
    (/\ m_pc = "done"
     /\ AllWellFormed
     /\ \E p \in MFetches : m_fetches[p].res # "success") =>
        /\ m_result.ok
        /\ \A p \in MFetches :
              m_fetches[p].res = "success" => SetsOf(m_fetches[p].domain) # {}

\* --------------------------------------------- claims on the cluster info
\* C15: a successful get_cluster_info response has exactly one entry for every
\* descriptor of the registry listing, in listing order, and the entry of a
\* node whose about request failed at transport level has reachable = false,
\* an empty staging path and the error text set.
C15_EveryNodeInClusterInfo ==
    (ci_pc = "done" /\ ci_result.ok) =>
        /\ Len(ci_result.body) = Len(get_ingester_info(objects))
        /\ \A k \in 1..Len(ci_result.body) :
              /\ ci_result.body[k].domain_name =
                    get_ingester_info(objects)[k].domain_name
              /\ \E p \in 1..Len(ci_fetches) :
                    /\ ci_fetches[p].i = k
                    /\ ci_fetches[p].res = "transport" =>
                          /\ ~ci_result.body[k].reachable
                          /\ ci_result.body[k].staging_path = ""
                          /\ ci_result.body[k].error = "Some"
                    /\ ci_fetches[p].res # "transport" =>
                          ci_result.body[k].reachable

\* C15 witness: three nodes, the second one unreachable at transport level
C15_Witness ==
    /\ ci_pc = "done"
    /\ ci_result.ok
    /\ Len(ci_result.body) = 3
    /\ ci_fetches[2].res = "transport"
    /\ ci_fetches[1].res = "success"
    /\ ~ci_result.body[2].reachable
    /\ ci_result.body[3].reachable

\* C16 (as stated): when a node answered with a body that lacks the staging
\* member or holds a non-string value for it, the call ends with an error
\* returned to the caller: the node is not skipped and the handler does not
\* terminate abnormally.
C16_MissingStagingIsReturnedError ==
    (/\ ci_pc = "done"
     /\ \E p \in 1..Len(ci_fetches) :
           ci_fetches[p].res \in {"no_staging", "non_string"}) =>
        /\ ~ci_result.ok
        /\ ci_result.variant # "panic"

\* ------------------------------------------------ claims on termination
\* C17 (as stated): every sync run eventually returns, also when a peer
\* never answers a call sent to it.
C17_SyncEventuallyReturns == <>(pc = "done")

\* ------------------------------------------- claims on the sync behaviour
\* entry i accepted this run's create and no later DELETE to it succeeded
StillHolds(i) ==
    /\ Accepted(i)
    /\ ~ \E p \in Deletes : calls[p].i = i /\ calls[p].res = "success"

\* C18 (as stated): when the run returns the forward-failure error after a
\* rollback phase in which no rollback call failed, no entry still holds the
\* stream that this run's create call made.
C18_AllOrCompensate ==
    (pc = "done" /\ result = forward_failure_error /\ ~RollbackFailed) =>
        \A i \in 1..Len(OriginalList) : ~StillHolds(i)

\* C19: no DELETE is issued before a create has failed, no PUT is issued
\* after a DELETE, every list entry gets at most one PUT and at most one
\* DELETE, and the run issues at most as many of each as the list has entries.
C19_PhasesNeverInterleave ==
    /\ \A q \in Deletes : \E p \in Puts : p < q /\ calls[p].res # "success"
    /\ \A p \in Puts, q \in Deletes : p < q
    /\ \A p \in SyncProbes, q \in RollbackProbes : p < q
    /\ \A p, q \in Puts : calls[p].i = calls[q].i => p = q
    /\ \A p, q \in Deletes : calls[p].i = calls[q].i => p = q
    /\ Cardinality(Puts) <= Len(OriginalList)
    /\ Cardinality(Deletes) <= Len(OriginalList)

\* C19 witness: three entries, three creates of which the last fails, then
\* three rollbacks
C19_Witness ==
    /\ pc = "done"
    /\ Len(OriginalList) = 3
    /\ Cardinality(Puts) = 3
    /\ Cardinality(Deletes) = 3
    /\ result = forward_failure_error

\* C20: the run binds its list by the one listing at its start and never
\* again, and every probe, PUT and DELETE addresses an entry of that list,
\* whatever is written to or deleted from the registry meanwhile.
C20_OneSnapshotForBothPhases ==
    /\ [][ingester_infos' # ingester_infos =>
            (pc = "start" /\ ingester_infos' = get_ingester_info(objects))]_vars
    /\ [][listed # "none" => listed' = listed]_vars
    /\ [](\A p \in CallIdx :
            /\ calls[p].i \in 1..Len(ingester_infos)
            /\ calls[p].domain = ingester_infos[calls[p].i].domain_name)

\* C20 witness: a node whose descriptor was deleted after the listing still
\* gets the rollback call
C20_Witness ==
    /\ pc = "done"
    /\ changes >= 1
    /\ \E p \in Puts : calls[p].res = "success"
    /\ \E q \in Deletes : calls[q].domain \notin Registered
    /\ \A q \in Deletes : calls[q].domain = ingester_infos[calls[q].i].domain_name

====
